---- MODULE Spec2Model ----
(***************************************************************************)
(* Model of src/app.js: the interactive tabletop map (fog-of-war grid,     *)
(* check markers, localStorage persistence).  Each event handler of the    *)
(* page is one action; the pure helpers are operators.                     *)
(***************************************************************************)
EXTENDS Integers, Sequences, FiniteSets, TLC

\* ---------------------------------------------------------------- bounds
\* nextMarkerId is capped so that the marker counter stays finite.
MaxMarkerId == 1
\* FileReader reads that may be in flight at once.
MaxPendingReads == 2
\* localStorage.setItem calls that may throw in a row.
MaxFailedWrites == 1

\* ------------------------------------------------------ program constants
MinGrid == 4
MaxGrid == 24
DefaultCols == 8
DefaultRows == 6
FirstMarkerId == 1

\* ------------------------------------------------------------ JS values
\* A JS value that can sit in state.imageDataUrl or in the stored record's
\* imageDataUrl field: undefined ("absent"), null, a string s or a number n.
ImgAbsent == [t |-> "absent", s |-> "", n |-> 0]
ImgNull == [t |-> "null", s |-> "", n |-> 0]
ImgStr(x) == [t |-> "str", s |-> x, n |-> 0]
ImgNum(k) == [t |-> "num", s |-> "", n |-> k]

\* JS truthiness of such a value (the test of line 56, 129 and 422).
Truthy(v) ==
  CASE v.t = "str" -> v.s # ""
    [] v.t = "num" -> v.n # 0
    [] OTHER -> FALSE

\* A JS number n (+ 1/2 when half), as far as the grid fields need it.
Num(k) == [n |-> k, half |-> FALSE]
NumHalf(k) == [n |-> k, half |-> TRUE]

\* A field of the stored record that should be a number: absent, a string
\* such as "nine", or a number.
NumAbsent == [t |-> "absent", n |-> 0, half |-> FALSE]
NumStr == [t |-> "str", n |-> 0, half |-> FALSE]
NumOf(x) == [t |-> "num", n |-> x.n, half |-> x.half]

\* The revealed field of the stored record: absent, null, a string, an
\* object whose keys all map to true, or an (empty) array.
RevAbsent == [t |-> "absent", keys |-> {}]
RevNull == [t |-> "null", keys |-> {}]
RevStr == [t |-> "str", keys |-> {}]
RevObj(ks) == [t |-> "obj", keys |-> ks]
RevArr == [t |-> "arr", keys |-> {}]

\* The markers field of the stored record: absent, a non-array object, or an
\* array of marker objects.
MrkAbsent == [t |-> "absent", items |-> <<>>]
MrkObj == [t |-> "obj", items |-> <<>>]
MrkArr(ms) == [t |-> "arr", items |-> ms]

\* ------------------------------------------------------- text and parseInt
\* The text of a grid input: a decimal integer, "n.5", or text with no
\* leading digits (empty, "abc").
TxtInt(k) == [t |-> "int", n |-> k]
TxtFrac(k) == [t |-> "frac", n |-> k]
TxtNonNum == [t |-> "nonnum", n |-> 0]

\* String(x) for a JS number, as assigned to dom.cols.value (line 65, 428).
NumToText(x) == IF x.half THEN TxtFrac(x.n) ELSE TxtInt(x.n)

\* parseInt(text, 10): the leading integer, or NaN.
ParseInt(txt) ==
  IF txt.t = "nonnum" THEN [nan |-> TRUE, v |-> 0] ELSE [nan |-> FALSE, v |-> txt.n]

\* p || d  for a parseInt result p: NaN and 0 are falsy.
OrDefault(p, d) == IF p.nan \/ p.v = 0 THEN d ELSE p.v

Min(a, b) == IF a < b THEN a ELSE b
Max(a, b) == IF a > b THEN a ELSE b

\* A clamp that forgets the lower limit: Math.min(24, parseInt(text, 10) || dflt).
ClampGridNoFloor(txt, dflt) == Min(MaxGrid, OrDefault(ParseInt(txt), dflt))

\* Math.max(4, Math.min(24, parseInt(text, 10) || dflt))
ClampGrid(txt, dflt) == Max(MinGrid, Min(MaxGrid, OrDefault(ParseInt(txt), dflt)))

\* `${i},${j}`: the key of cell (i, j).
cellKey(i, j) == <<i, j>>

\* ------------------------------------------------------------ input sets
\* Images whose data URL a FileReader can deliver.
Images == {"imgA", "imgB"}

\* What the file input can hand to onImageSelect: an image file, a file of
\* another type, or no file at all.
Files == [kind : {"image"}, url : Images]
           \cup {[kind |-> "text", url |-> "notes"], [kind |-> "nofile", url |-> ""]}

\* Texts the two grid inputs can hold (typed by the user, or the page's own
\* value attribute at load): no number, zero, a number below MinGrid, a
\* number above MaxGrid.
ColTexts == {TxtNonNum, TxtInt(0), TxtInt(3)}
RowTexts == {TxtNonNum, TxtInt(30)}
GridTexts(which) == IF which = "cols" THEN ColTexts ELSE RowTexts

\* The options of the reveal-size control.
RevealSizes == {0, 1}

\* Cells of a rendered layer that are clicked.
ClickCells == {<<3, 0>>}

\* Pointer positions of a marker-mode click, in percent of the container.
ClickPositions == {[x |-> 50, y |-> 50]}

\* Texts of the marker modal's name and check fields.
MarkerTexts == {[name |-> " Trap ", check |-> "  "]}

\* The label given to a marker saved without a name (line 322; the source's
\* literal is the Cyrillic word for "check").
DefaultName == "Proverka"

\* String.prototype.trim on the modal texts.
Trim(s) ==
  CASE s = "  " -> ""
    [] s = " Trap " -> "Trap"
    [] OTHER -> s

NoPending == [set |-> FALSE, x |-> 0, y |-> 0]
Pending(pos) == [set |-> TRUE, x |-> pos.x, y |-> pos.y]

\* ------------------------------------------------------------- the state
VARIABLES
  imageDataUrl,    \* state.imageDataUrl: a JS value (ImgNull, ImgStr, ...)
  cols, rows,      \* state.cols, state.rows
  revealed,        \* the keys k with state.revealed[k] === true
  revealedIsArray, \* state.revealed is a JS array (loaded from a stored array)
  markers,         \* state.markers: sequence of [id, x, y, name, check]
  nextMarkerId,    \* state.nextMarkerId
  mode,            \* state.mode
  pendingMarker,   \* state.pendingMarker
  masterViewAll,   \* state.masterViewAll
  store,           \* localStorage[STORAGE_KEY]
  pendingReads,    \* FileReader reads in flight, in selection order
  imgLoading,      \* mapImage.src was set and its load event has not fired
  imgComplete,     \* mapImage.complete && mapImage.naturalWidth
  containerHidden, \* dom.mapContainer.hidden
  modal,           \* the marker modal: "closed", "open", "hiding"
  failedWrites,    \* setItem calls that have thrown since the last one that did not
  early,           \* layers rendered since src was set, while the load is pending
  hadPrior         \* an earlier image was complete when src was last set

persisted == <<imageDataUrl, cols, rows, revealed, revealedIsArray, markers, nextMarkerId>>
transient == <<mode, pendingMarker, masterViewAll>>
imageEl == <<imgLoading, imgComplete, early, hadPrior>>
vars == <<imageDataUrl, cols, rows, revealed, revealedIsArray, markers, nextMarkerId,
          mode, pendingMarker, masterViewAll, store, pendingReads, imgLoading,
          imgComplete, containerHidden, modal, failedWrites,
          early, hadPrior>>

\* ---------------------------------------------------------- persistence
\* The stored item: absent, text that is not JSON, the JSON text "null",
\* another JSON primitive, or a JSON object with the six fields.
NoItem ==
  [kind |-> "none", imageDataUrl |-> ImgAbsent, cols |-> NumAbsent, rows |-> NumAbsent,
   revealed |-> RevAbsent, markers |-> MrkAbsent, nextMarkerId |-> NumAbsent]
Garbage == [NoItem EXCEPT !.kind = "garbage"]
JsonNull == [NoItem EXCEPT !.kind = "null"]
JsonPrim == [NoItem EXCEPT !.kind = "prim"]
StoreObj(img, c, r, rev, ms, nid) ==
  [kind |-> "object", imageDataUrl |-> img, cols |-> c, rows |-> r,
   revealed |-> rev, markers |-> ms, nextMarkerId |-> nid]

\* The payload object of saveState.
Payload(img, c, r, rev, revArr, ms, nid) ==
  [imageDataUrl |-> img, cols |-> c, rows |-> r, revealed |-> rev,
   revealedIsArray |-> revArr, markers |-> ms, nextMarkerId |-> nid]

\* A payload that leaves out nextMarkerId.
JSONstringifyNoCounter(p) ==
  StoreObj(p.imageDataUrl, NumOf(Num(p.cols)), NumOf(Num(p.rows)),
           IF p.revealedIsArray THEN RevArr ELSE RevObj(p.revealed),
           MrkArr(p.markers), NumAbsent)

\* JSON.stringify(payload): a JS array keeps only its indexed elements, so
\* the string-keyed entries of an array-valued state.revealed are dropped.
JSONstringify(p) ==
  StoreObj(p.imageDataUrl, NumOf(Num(p.cols)), NumOf(Num(p.rows)),
           IF p.revealedIsArray THEN RevArr ELSE RevObj(p.revealed),
           MrkArr(p.markers), NumOf(Num(p.nextMarkerId)))

\* The state object as declared (line 38-48), with the page's input texts.
DefaultState(htmlCols, htmlRows) ==
  [imageDataUrl |-> ImgNull, cols |-> Num(DefaultCols), rows |-> Num(DefaultRows),
   revealed |-> {}, revealedIsArray |-> FALSE, markers |-> <<>>,
   nextMarkerId |-> FirstMarkerId, domCols |-> htmlCols, domRows |-> htmlRows]

\* loadState applied to the default state: returns the state fields and the
\* two input texts.  A missing item returns early; text that does not parse
\* and the JSON text "null" (reading a property of null) throw into the catch.
loadState(st, htmlCols, htmlRows) ==
  LET d == DefaultState(htmlCols, htmlRows)
      c == IF st.cols.t = "num" THEN [n |-> st.cols.n, half |-> st.cols.half] ELSE d.cols
      r == IF st.rows.t = "num" THEN [n |-> st.rows.n, half |-> st.rows.half] ELSE d.rows
  IN
  IF st.kind \in {"none", "garbage", "null"} THEN d
  ELSE [imageDataUrl |-> IF Truthy(st.imageDataUrl) THEN st.imageDataUrl ELSE d.imageDataUrl,
        cols |-> c,
        rows |-> r,
        revealed |-> IF st.revealed.t \in {"obj", "arr"} THEN st.revealed.keys ELSE d.revealed,
        revealedIsArray |-> st.revealed.t = "arr",
        markers |-> IF st.markers.t = "arr" THEN st.markers.items ELSE d.markers,
        nextMarkerId |-> IF st.nextMarkerId.t = "num" THEN st.nextMarkerId.n
                         ELSE d.nextMarkerId,
        domCols |-> NumToText(c),
        domRows |-> NumToText(r)]

\* ------------------------------------------------------------ pure helpers
\* isCellVisible(key), as a boolean.
isCellVisible(key) == key \in revealed \/ masterViewAll

\* The keys set by the two nested loops of the reveal branch of onMapClick:
\* jj runs over cj-radius..cj+radius, ii over ci-radius..ci+radius, and a
\* cell outside the grid is skipped by the continue of line 217.
RECURSIVE RevealRow(_, _, _, _, _, _)
RevealRow(ii, iiEnd, jj, c, r, acc) ==
  IF ii > iiEnd THEN acc
  ELSE RevealRow(ii + 1, iiEnd, jj, c, r,
                 IF ii < 0 \/ ii >= c \/ jj < 0 \/ jj >= r THEN acc
                 ELSE acc \cup {cellKey(ii, jj)})

RECURSIVE RevealLoop(_, _, _, _, _, _, _)
RevealLoop(jj, jjEnd, ci, radius, c, r, acc) ==
  IF jj > jjEnd THEN acc
  ELSE RevealLoop(jj + 1, jjEnd, ci, radius, c, r,
                  RevealRow(ci - radius, ci + radius, jj, c, r, acc))

\* A reveal branch that toggles: a key already there is deleted.
RevealCellsToggles(ci, cj, radius, c, r, rev) ==
  LET square == RevealLoop(cj - radius, cj + radius, ci, radius, c, r, {})
  IN (rev \ square) \cup (square \ rev)

\* A reveal branch that starts from a fresh object (state.revealed = {})
\* instead of adding to the keys already there.
RevealCellsFromEmpty(ci, cj, radius, c, r, rev) ==
  RevealLoop(cj - radius, cj + radius, ci, radius, c, r, {})

\* A reveal branch whose continue tests the largest grid, not the current one.
RevealCellsUnclipped(ci, cj, radius, c, r, rev) ==
  RevealLoop(cj - radius, cj + radius, ci, radius, MaxGrid, MaxGrid, rev)

RevealCells(ci, cj, radius, c, r, rev) ==
  RevealLoop(cj - radius, cj + radius, ci, radius, c, r, rev)

\* A deletion by position: the first marker goes, whatever its id.
FilterMarkersRemovesFirst(ms, id) == IF ms = <<>> THEN ms ELSE Tail(ms)

\* state.markers.filter((m) => m.id !== id)
FilterMarkers(ms, id) == SelectSeq(ms, LAMBDA m : m.id # id)

\* The sequence q without its k-th element.
RemoveAt(q, k) == SubSeq(q, 1, k - 1) \o SubSeq(q, k + 1, Len(q))

\* A renderFog without the guard of line 177.
renderFogUnguarded(complete) == {"fog"}

\* The layers each render call builds.  renderFog returns before building
\* any cell unless the image is complete with a natural width (line 177).
renderGrid == {"grid"}
renderFog(complete) == IF complete THEN {"fog"} ELSE {}
renderMarkers == {"markers"}
renderAll(complete) == renderGrid \cup renderFog(complete) \cup renderMarkers

\* The layers a handler rendered while the image load is pending.
Early(loading, done) == IF loading THEN early \cup done ELSE early

\* A saveState called before the handler's assignments instead of after.
saveStateBeforeMutation(ok) ==
  /\ ok \/ failedWrites < MaxFailedWrites
  /\ store' = IF ok
              THEN JSONstringify(Payload(imageDataUrl, cols, rows, revealed,
                                         revealedIsArray, markers, nextMarkerId))
              ELSE store
  /\ failedWrites' = IF ok THEN 0 ELSE failedWrites + 1

\* A saveState whose catch removes the stored item.
saveStateFailureClears(ok) ==
  /\ ok \/ failedWrites < MaxFailedWrites
  /\ store' = IF ok
              THEN JSONstringify(Payload(imageDataUrl', cols', rows', revealed',
                                         revealedIsArray', markers', nextMarkerId'))
              ELSE NoItem
  /\ failedWrites' = IF ok THEN 0 ELSE failedWrites + 1

\* saveState: the write of line 411, which may throw into the catch.
saveState(ok) ==
  /\ ok \/ failedWrites < MaxFailedWrites
  /\ store' = IF ok
              THEN JSONstringify(Payload(imageDataUrl', cols', rows', revealed',
                                         revealedIsArray', markers', nextMarkerId'))
              ELSE store
  /\ failedWrites' = IF ok THEN 0 ELSE failedWrites + 1

\* ------------------------------------------------------------------ init
\* init() on a freshly loaded page whose localStorage item is st and whose
\* grid inputs hold htmlCols and htmlRows: loadState, applyGridInputs,
\* bindEvents and, with a stored image, showMap and renderAll.
init(st, htmlCols, htmlRows) ==
  LET L == loadState(st, htmlCols, htmlRows)
      c == ClampGrid(L.domCols, DefaultCols)
      r == ClampGrid(L.domRows, DefaultRows)
      shown == Truthy(L.imageDataUrl)
      loading == shown /\ L.imageDataUrl.t = "str"
  IN [imageDataUrl |-> L.imageDataUrl, cols |-> c, rows |-> r,
      revealed |-> L.revealed, revealedIsArray |-> L.revealedIsArray,
      markers |-> L.markers, nextMarkerId |-> L.nextMarkerId,
      mode |-> "marker", pendingMarker |-> NoPending, masterViewAll |-> FALSE,
      imgLoading |-> loading,
      early |-> IF loading THEN renderAll(FALSE) ELSE {}]

\* The texts the page's own grid inputs hold when init() starts.  loadState
\* overwrites them once JSON.parse has returned a value other than null, so
\* only one text is tried then.
HtmlTexts(st, which) ==
  IF st.kind \in {"none", "garbage", "null"} THEN GridTexts(which) ELSE {TxtNonNum}

InitFrom(st) ==
  \E htmlCols \in HtmlTexts(st, "cols"), htmlRows \in HtmlTexts(st, "rows") :
    LET s0 == init(st, htmlCols, htmlRows) IN
    /\ imageDataUrl = s0.imageDataUrl
    /\ cols = s0.cols
    /\ rows = s0.rows
    /\ revealed = s0.revealed
    /\ revealedIsArray = s0.revealedIsArray
    /\ markers = s0.markers
    /\ nextMarkerId = s0.nextMarkerId
    /\ mode = s0.mode
    /\ pendingMarker = s0.pendingMarker
    /\ masterViewAll = s0.masterViewAll
    /\ store = st
    /\ pendingReads = <<>>
    /\ imgLoading = s0.imgLoading
    /\ imgComplete = FALSE
    /\ containerHidden = TRUE
    /\ modal = "closed"
    /\ failedWrites = 0
    /\ early = s0.early
    /\ hadPrior = FALSE

\* A first visit: nothing is stored.
Init == InitFrom(NoItem)

\* The page is loaded again: init() runs on the stored item.
Reload ==
  \E htmlCols \in HtmlTexts(store, "cols"), htmlRows \in HtmlTexts(store, "rows") :
    LET s0 == init(store, htmlCols, htmlRows) IN
    /\ imageDataUrl' = s0.imageDataUrl
    /\ cols' = s0.cols
    /\ rows' = s0.rows
    /\ revealed' = s0.revealed
    /\ revealedIsArray' = s0.revealedIsArray
    /\ markers' = s0.markers
    /\ nextMarkerId' = s0.nextMarkerId
    /\ mode' = s0.mode
    /\ pendingMarker' = s0.pendingMarker
    /\ masterViewAll' = s0.masterViewAll
    /\ pendingReads' = <<>>
    /\ imgLoading' = s0.imgLoading
    /\ imgComplete' = FALSE
    /\ containerHidden' = TRUE
    /\ modal' = "closed"
    /\ early' = s0.early
    /\ hadPrior' = FALSE
    /\ UNCHANGED <<store, failedWrites>>

\* -------------------------------------------------------------- handlers
\* While the marker modal is displayed its backdrop keeps the rest of the
\* page from being clicked.
PageUsable == modal = "closed"

\* An onImageSelect without the type test of line 114.
onImageSelectAnyFile(file) ==
  /\ PageUsable
  /\ Len(pendingReads) < MaxPendingReads
  /\ \A k \in 1..Len(pendingReads) : pendingReads[k] # file.url
  /\ pendingReads' = Append(pendingReads, file.url)
  /\ UNCHANGED <<persisted, transient, store, imageEl, containerHidden,
                 modal, failedWrites>>

\* onImageSelect: a missing or non-image file is ignored; otherwise a
\* FileReader starts reading it.
onImageSelect(file) ==
  /\ PageUsable
  /\ IF file.kind # "image"
     THEN /\ UNCHANGED pendingReads
     ELSE /\ Len(pendingReads) < MaxPendingReads
          /\ \A k \in 1..Len(pendingReads) : pendingReads[k] # file.url
          /\ pendingReads' = Append(pendingReads, file.url)
  /\ UNCHANGED <<persisted, transient, store, imageEl, containerHidden,
                 modal, failedWrites>>

\* A reader.onload that keeps the fog of the previous image.
readerOnloadKeepsFog(k, ok) ==
  /\ k \in 1..Len(pendingReads)
  /\ imageDataUrl' = ImgStr(pendingReads[k])
  /\ pendingReads' = RemoveAt(pendingReads, k)
  /\ \E stillComplete \in (IF imgComplete THEN BOOLEAN ELSE {FALSE}) :
       early' = renderAll(stillComplete)
  /\ imgLoading' = TRUE
  /\ imgComplete' = FALSE
  /\ hadPrior' = imgComplete
  /\ UNCHANGED <<cols, rows, revealed, revealedIsArray, markers, nextMarkerId, transient,
                 containerHidden, modal>>
  /\ saveState(ok)

\* reader.onload of the k-th read in flight: the new image replaces the old
\* one and the fog is cleared; showMap sets mapImage.src, renderAll follows
\* at once, then saveState.  Right after src is set the element may still
\* report an earlier, complete image (browsers differ), and only then does
\* renderFog get past its guard.
readerOnload(k, ok) ==
  /\ k \in 1..Len(pendingReads)
  /\ imageDataUrl' = ImgStr(pendingReads[k])
  /\ revealed' = {}
  /\ revealedIsArray' = FALSE
  /\ pendingReads' = RemoveAt(pendingReads, k)
  /\ \E stillComplete \in (IF imgComplete THEN BOOLEAN ELSE {FALSE}) :
       early' = renderAll(stillComplete)
  /\ imgLoading' = TRUE
  /\ imgComplete' = FALSE
  /\ hadPrior' = imgComplete
  /\ UNCHANGED <<cols, rows, markers, nextMarkerId, transient, containerHidden, modal>>
  /\ saveState(ok)

\* mapImage.onload: the image is decoded; the map is shown and the three
\* layers are rendered.
imageOnload ==
  /\ imgLoading
  /\ imgLoading' = FALSE
  /\ imgComplete' = TRUE
  /\ containerHidden' = FALSE
  /\ early' = {}
  /\ hadPrior' = FALSE
  /\ UNCHANGED <<persisted, transient, store, pendingReads, modal, failedWrites>>

\* An onGridChange that drops the revealed keys outside the new grid.
onGridChangePrunes(which, txt, ok) ==
  /\ PageUsable
  /\ cols' = ClampGrid(IF which = "cols" THEN txt ELSE NumToText(Num(cols)), DefaultCols)
  /\ rows' = ClampGrid(IF which = "rows" THEN txt ELSE NumToText(Num(rows)), DefaultRows)
  /\ revealed' = {key \in revealed : key[1] < cols' /\ key[2] < rows'}
  /\ early' = IF Truthy(imageDataUrl)
              THEN Early(imgLoading, renderGrid \cup renderFog(imgComplete))
              ELSE early
  /\ UNCHANGED <<imageDataUrl, revealedIsArray, markers, nextMarkerId, transient,
                 pendingReads, imgLoading, imgComplete, hadPrior, containerHidden, modal>>
  /\ saveState(ok)

\* onGridChange after the user typed txt into one of the two grid inputs
\* (the other still holds the number applyGridInputs wrote into it).
onGridChange(which, txt, ok) ==
  /\ PageUsable
  /\ cols' = ClampGrid(IF which = "cols" THEN txt ELSE NumToText(Num(cols)), DefaultCols)
  /\ rows' = ClampGrid(IF which = "rows" THEN txt ELSE NumToText(Num(rows)), DefaultRows)
  /\ early' = IF Truthy(imageDataUrl)
              THEN Early(imgLoading, renderGrid \cup renderFog(imgComplete))
              ELSE early
  /\ UNCHANGED <<imageDataUrl, revealed, revealedIsArray, markers, nextMarkerId, transient,
                 pendingReads, imgLoading, imgComplete, hadPrior, containerHidden, modal>>
  /\ saveState(ok)

\* The click handler of the mode button: setMode of the other mode.
setMode ==
  /\ PageUsable
  /\ mode' = IF mode = "reveal" THEN "marker" ELSE "reveal"
  /\ UNCHANGED <<persisted, pendingMarker, masterViewAll, store, pendingReads, imageEl,
                 containerHidden, modal, failedWrites>>

\* A view-all override that marks the first cell as revealed.
masterViewMarksCells(on) ==
  /\ PageUsable
  /\ masterViewAll' = on
  /\ revealed' = IF on THEN revealed \cup {cellKey(0, 0)} ELSE revealed
  /\ early' = Early(imgLoading, renderFog(imgComplete) \cup renderGrid)
  /\ UNCHANGED <<imageDataUrl, cols, rows, revealedIsArray, markers, nextMarkerId, mode,
                 pendingMarker, store, pendingReads, imgLoading,
                 imgComplete, hadPrior, containerHidden, modal, failedWrites>>

\* onMasterShowAll and onMasterHide: set the override, renderFog, renderGrid.
masterView(on) ==
  /\ PageUsable
  /\ masterViewAll' = on
  /\ early' = Early(imgLoading, renderFog(imgComplete) \cup renderGrid)
  /\ UNCHANGED <<persisted, mode, pendingMarker, store, pendingReads, imgLoading,
                 imgComplete, hadPrior, containerHidden, modal, failedWrites>>

onMasterShowAll == masterView(TRUE)
onMasterHide == masterView(FALSE)

\* A click on a cell of the visible map.  Every rendered layer has at least
\* MinGrid columns and rows, so the cells of ClickCells are in each of them.
Clickable(cell) ==
  /\ PageUsable
  /\ ~containerHidden
  /\ cell \in ClickCells

\* onMapClick in reveal mode.
onMapClickReveal(cell, radius, ok) ==
  /\ Clickable(cell)
  /\ mode = "reveal"
  /\ revealed' = RevealCells(cell[1], cell[2], radius, cols, rows, revealed)
  /\ UNCHANGED <<imageDataUrl, cols, rows, revealedIsArray, markers, nextMarkerId,
                 transient, pendingReads, imageEl, containerHidden, modal>>
  /\ saveState(ok)

\* A marker-mode click that also reveals the clicked cell.
onMapClickMarkerReveals(cell, pos) ==
  /\ Clickable(cell)
  /\ mode = "marker"
  /\ pendingMarker' = Pending(pos)
  /\ modal' = "open"
  /\ revealed' = revealed \cup {cellKey(cell[1], cell[2])}
  /\ UNCHANGED <<imageDataUrl, cols, rows, revealedIsArray, markers, nextMarkerId, mode,
                 masterViewAll, store, pendingReads, imageEl, containerHidden, failedWrites>>

\* onMapClick in marker mode: openMarkerModal with the click position.
onMapClickMarker(cell, pos) ==
  /\ Clickable(cell)
  /\ mode = "marker"
  /\ pendingMarker' = Pending(pos)
  /\ modal' = "open"
  /\ UNCHANGED <<persisted, mode, masterViewAll, store, pendingReads, imageEl,
                 containerHidden, failedWrites>>

\* A marker whose id is taken after the increment (id: ++state.nextMarkerId).
NewMarkerIdAfterIncrement(id, pending, txt) ==
  [id |-> id + 1, x |-> pending.x, y |-> pending.y,
   name |-> IF Trim(txt.name) = "" THEN DefaultName ELSE Trim(txt.name),
   check |-> Trim(txt.check)]

\* The marker appended by onMarkerSave.
NewMarker(id, pending, txt) ==
  [id |-> id, x |-> pending.x, y |-> pending.y,
   name |-> IF Trim(txt.name) = "" THEN DefaultName ELSE Trim(txt.name),
   check |-> Trim(txt.check)]

\* onMarkerSave: the Save button of the modal.  Without a pending position
\* it returns at once.
onMarkerSave(txt, ok) ==
  /\ modal # "closed"
  /\ IF ~pendingMarker.set
     THEN /\ ok
          /\ UNCHANGED <<persisted, transient, store, pendingReads, imageEl,
                         containerHidden, modal, failedWrites>>
     ELSE /\ nextMarkerId <= MaxMarkerId
          /\ markers' = Append(markers, NewMarker(nextMarkerId, pendingMarker, txt))
          /\ nextMarkerId' = nextMarkerId + 1
          /\ pendingMarker' = NoPending
          /\ modal' = "hiding"
          /\ early' = Early(imgLoading, renderMarkers)
          /\ UNCHANGED <<imageDataUrl, cols, rows, revealed, revealedIsArray, mode,
                         masterViewAll, pendingReads, imgLoading, imgComplete, hadPrior,
                         containerHidden>>
          /\ saveState(ok)

\* A closeMarkerModal that only hides the modal.
closeMarkerModalKeepsPending ==
  /\ modal # "closed"
  /\ modal' = "hiding"
  /\ UNCHANGED <<persisted, transient, store, pendingReads, imageEl,
                 containerHidden, failedWrites>>

\* closeMarkerModal, as the Cancel button's handler.
closeMarkerModal ==
  /\ modal # "closed"
  /\ modal' = "hiding"
  /\ pendingMarker' = NoPending
  /\ UNCHANGED <<persisted, mode, masterViewAll, store, pendingReads, imageEl,
                 containerHidden, failedWrites>>

\* The user dismisses the modal (Escape, a click on the backdrop).
modalDismiss ==
  /\ modal = "open"
  /\ modal' = "hiding"
  /\ UNCHANGED <<persisted, transient, store, pendingReads, imageEl, containerHidden, failedWrites>>

\* The hidden.bs.modal listener of line 79.
modalHidden ==
  /\ modal = "hiding"
  /\ modal' = "closed"
  /\ pendingMarker' = NoPending
  /\ UNCHANGED <<persisted, mode, masterViewAll, store, pendingReads, imageEl,
                 containerHidden, failedWrites>>

\* deleteMarker(id), from a marker dot (after its confirm) or a list button.
deleteMarker(id, ok) ==
  /\ PageUsable
  /\ markers' = FilterMarkers(markers, id)
  /\ early' = Early(imgLoading, renderMarkers)
  /\ UNCHANGED <<imageDataUrl, cols, rows, revealed, revealedIsArray, nextMarkerId,
                 transient, pendingReads, imgLoading, imgComplete, hadPrior,
                 containerHidden, modal>>
  /\ saveState(ok)

\* An onReset that leaves the marker counter where it was.
onResetKeepsCounter(confirmed, ok) ==
  /\ PageUsable
  /\ IF ~confirmed
     THEN /\ ok
          /\ UNCHANGED <<persisted, transient, store, pendingReads, imageEl,
                         containerHidden, modal, failedWrites>>
     ELSE /\ imageDataUrl' = ImgNull
          /\ revealed' = {}
          /\ revealedIsArray' = FALSE
          /\ markers' = <<>>
          /\ containerHidden' = TRUE
          /\ UNCHANGED <<cols, rows, nextMarkerId, transient, pendingReads, imageEl, modal>>
          /\ saveState(ok)

\* onReset: nothing happens unless the confirm dialog is accepted.
onReset(confirmed, ok) ==
  /\ PageUsable
  /\ IF ~confirmed
     THEN /\ ok
          /\ UNCHANGED <<persisted, transient, store, pendingReads, imageEl,
                         containerHidden, modal, failedWrites>>
     ELSE /\ imageDataUrl' = ImgNull
          /\ revealed' = {}
          /\ revealedIsArray' = FALSE
          /\ markers' = <<>>
          /\ nextMarkerId' = FirstMarkerId
          /\ containerHidden' = TRUE
          /\ UNCHANGED <<cols, rows, transient, pendingReads, imageEl, modal>>
          /\ saveState(ok)

\* ----------------------------------------------------------- the system
Next ==
  \/ Reload
  \/ \E file \in Files : onImageSelect(file)
  \/ \E k \in 1..MaxPendingReads, ok \in BOOLEAN : readerOnload(k, ok)
  \/ imageOnload
  \/ \E which \in {"cols", "rows"}, ok \in BOOLEAN : \E txt \in GridTexts(which) :
       onGridChange(which, txt, ok)
  \/ setMode
  \/ onMasterShowAll
  \/ onMasterHide
  \/ \E cell \in ClickCells, radius \in RevealSizes, ok \in BOOLEAN :
       onMapClickReveal(cell, radius, ok)
  \/ \E cell \in ClickCells, pos \in ClickPositions : onMapClickMarker(cell, pos)
  \/ \E txt \in MarkerTexts, ok \in BOOLEAN : onMarkerSave(txt, ok)
  \/ closeMarkerModal
  \/ modalDismiss
  \/ modalHidden
  \/ \E id \in 1..MaxMarkerId, ok \in BOOLEAN : deleteMarker(id, ok)
  \/ \E confirmed \in BOOLEAN, ok \in BOOLEAN : onReset(confirmed, ok)

Spec == Init /\ [][Next]_vars

\* ------------------------------------------- a page that finds any record
\* Items another program, an older version or the user may have left under
\* STORAGE_KEY: text that is not JSON, the JSON text "null", a JSON
\* primitive, and objects whose fields have other types than saveState
\* writes (imageDataUrl 42, cols "nine", rows 100, revealed [], markers {}).
WrongTypes ==
  StoreObj(ImgNum(42), NumStr, NumOf(Num(100)), RevArr, MrkObj, NumStr)
PartlyWrong ==
  StoreObj(ImgStr("imgA"), NumOf(Num(3)), NumOf(Num(100)), RevStr, MrkArr(<<>>), NumAbsent)
FoundItems == {NoItem, Garbage, JsonNull, JsonPrim, WrongTypes, PartlyWrong}

InitLoad == \E st \in FoundItems : InitFrom(st)

SpecLoad == InitLoad /\ [][Next]_vars

\* =================================================================== claims
\* Steps of the handlers several claims speak about.
ConfirmedReset == \E ok \in BOOLEAN : onReset(TRUE, ok)
ImageLoadCompleted == \E k \in 1..MaxPendingReads, ok \in BOOLEAN : readerOnload(k, ok)

\* The durable record holds the six persisted fields of the state in memory.
StoreEqualsState ==
  /\ store.kind = "object"
  /\ store.imageDataUrl = imageDataUrl
  /\ store.cols = NumOf(Num(cols))
  /\ store.rows = NumOf(Num(rows))
  /\ store.revealed = RevObj(revealed)
  /\ store.markers = MrkArr(markers)
  /\ store.nextMarkerId = NumOf(Num(nextMarkerId))

C2_Square(ci, cj, radius, c, r) ==
  {cellKey(i, j) : i \in 0..(c - 1), j \in 0..(r - 1)} \cap
  {cellKey(i, j) : i \in (ci - radius)..(ci + radius), j \in (cj - radius)..(cj + radius)}

\* C2: a reveal click on cell (ci, cj) with radius r adds exactly the keys of
\* the square of that radius around the cell, clipped at the grid edges, and
\* removes none: radius 0 adds the clicked cell alone, and on the 8 x 6 grid
\* a click on (3, 2) with radius 1 adds 9 cells.
C2_RevealAddsClippedSquare ==
  /\ \A c \in {MinGrid, DefaultCols}, r \in {MinGrid, DefaultRows} :
       \A ci \in 0..(c - 1), cj \in 0..(r - 1), radius \in 0..2 :
         /\ RevealCells(ci, cj, radius, c, r, {}) = C2_Square(ci, cj, radius, c, r)
         /\ RevealCells(ci, cj, 0, c, r, {}) = {cellKey(ci, cj)}
  /\ Cardinality(RevealCells(3, 2, 1, DefaultCols, DefaultRows, {})) = 9
  /\ [][\A cell \in ClickCells, radius \in RevealSizes, ok \in BOOLEAN :
          onMapClickReveal(cell, radius, ok)
            => revealed' = revealed \cup C2_Square(cell[1], cell[2], radius, cols, rows)]_vars

\* A radius-1 click on the top right cell of a 4-column grid: the square is
\* clipped on two sides, 4 of its 9 cells are added.
C2_Witness ==
  /\ cols = MinGrid
  /\ revealed = {cellKey(2, 0), cellKey(3, 0), cellKey(2, 1), cellKey(3, 1)}
  /\ ~containerHidden

\* ----------------------------------------------------------------------- C3
\* The ids of state.markers are pairwise distinct and below nextMarkerId.
C3_IdsDistinctAndBelowNext ==
  /\ \A a, b \in 1..Len(markers) : markers[a].id = markers[b].id => a = b
  /\ \A a \in 1..Len(markers) : markers[a].id < nextMarkerId

C4_StoredNumbers == {Num(0), Num(3), Num(10), Num(100), Num(-3), NumHalf(9), NumHalf(0)}

\* C4: state.cols and state.rows are integers in [4, 24] when init() has
\* completed, for every numeric cols and rows of the stored record and every
\* text of the grid inputs, and after every later event.
C4_GridWithinLimits ==
  /\ \A c \in C4_StoredNumbers, r \in C4_StoredNumbers :
       \A htmlCols \in ColTexts, htmlRows \in RowTexts :
         LET s0 == init(StoreObj(ImgAbsent, NumOf(c), NumOf(r), RevAbsent, MrkAbsent,
                                 NumAbsent), htmlCols, htmlRows)
         IN s0.cols \in MinGrid..MaxGrid /\ s0.rows \in MinGrid..MaxGrid
  /\ [](cols \in MinGrid..MaxGrid /\ rows \in MinGrid..MaxGrid)

\* A page loaded from the record with rows 100, after 3 was typed into the
\* cols input.
C4_Witness ==
  /\ imageDataUrl = ImgNum(42)
  /\ rows = MaxGrid
  /\ cols = MinGrid

\* ----------------------------------------------------------------------- C5
\* C5: when the page loads the stored item, each field is taken from it if
\* it has the field's type (imageDataUrl a string or null, cols, rows and
\* nextMarkerId numbers, revealed a key-to-true map, markers an array) and
\* keeps its default otherwise; text that does not parse or is no object
\* leaves every default.
C5_LoadValidatesEachFieldByType ==
  [][Reload =>
       LET obj == store.kind \in {"object", "prim"} IN
       /\ imageDataUrl' = IF obj /\ store.imageDataUrl.t = "str"
                          THEN store.imageDataUrl ELSE ImgNull
       /\ revealed' = IF obj /\ store.revealed.t = "obj" THEN store.revealed.keys ELSE {}
       /\ ~revealedIsArray'
       /\ markers' = IF obj /\ store.markers.t = "arr" THEN store.markers.items ELSE <<>>
       /\ nextMarkerId' = IF obj /\ store.nextMarkerId.t = "num"
                          THEN store.nextMarkerId.n ELSE FirstMarkerId
       /\ obj => cols' = ClampGrid(NumToText(IF store.cols.t = "num"
                                             THEN [n |-> store.cols.n, half |-> store.cols.half]
                                             ELSE Num(DefaultCols)), DefaultCols)
       /\ obj => rows' = ClampGrid(NumToText(IF store.rows.t = "num"
                                             THEN [n |-> store.rows.n, half |-> store.rows.half]
                                             ELSE Num(DefaultRows)), DefaultRows)]_vars

\* ----------------------------------------------------------------------- C6
\* Valid session states: grid sizes within the limits, no image or an image,
\* in-range keys, well-formed markers, a positive counter.
C6_ValidStates ==
  {Payload(img, c, r, rev, FALSE, ms, nid) :
     img \in {ImgNull, ImgStr("imgA")}, c \in {MinGrid, DefaultCols, MaxGrid},
     r \in {MinGrid, DefaultRows, MaxGrid},
     rev \in {{}, {cellKey(0, 0), cellKey(3, 3)}},
     ms \in {<<>>, <<NewMarker(2, Pending([x |-> 50, y |-> 50]), [name |-> " Trap ", check |-> "  "])>>},
     nid \in {1, 3}}

\* C6: saveState followed by a fresh start (default state, loadState,
\* applyGridInputs) gives back imageDataUrl, cols, rows, revealed, markers
\* and nextMarkerId of every valid session state.
C6_RoundTrip ==
  /\ \A s \in C6_ValidStates : \A htmlCols \in ColTexts, htmlRows \in RowTexts :
       LET s0 == init(JSONstringify(s), htmlCols, htmlRows) IN
       /\ s0.imageDataUrl = s.imageDataUrl
       /\ s0.cols = s.cols
       /\ s0.rows = s.rows
       /\ s0.revealed = s.revealed
       /\ ~s0.revealedIsArray
       /\ s0.markers = s.markers
       /\ s0.nextMarkerId = s.nextMarkerId
  /\ [][(Reload /\ StoreEqualsState) => persisted' = persisted]_vars

\* A page reloaded from an up-to-date record that holds an image, a changed
\* grid, revealed keys and a marker.
C6_Witness ==
  /\ StoreEqualsState
  /\ containerHidden
  /\ imgLoading
  /\ cols = MinGrid
  /\ revealed # {}
  /\ markers # <<>>

\* ----------------------------------------------------------------------- C7
\* A handler that changes a persisted field and ends with saveState, whose
\* write succeeds (ok) or fails.
C7_SavingStep(ok) ==
  \/ \E cell \in ClickCells, radius \in RevealSizes : onMapClickReveal(cell, radius, ok)
  \/ \E txt \in MarkerTexts : onMarkerSave(txt, ok) /\ pendingMarker.set
  \/ \E id \in 1..MaxMarkerId : deleteMarker(id, ok)
  \/ \E which \in {"cols", "rows"} : \E txt \in GridTexts(which) : onGridChange(which, txt, ok)
  \/ \E k \in 1..MaxPendingReads : readerOnload(k, ok)
  \/ onReset(TRUE, ok)

\* C7: after a reveal click, a marker save, a marker deletion, a grid change,
\* a completed image load or a confirmed reset whose write succeeds, the
\* durable record holds the six persisted fields of the state in memory; and
\* no step other than a reload that changes a persisted field and is not
\* followed by a failed write leaves record and memory different.
C7_MutateThenPersist ==
  /\ [][C7_SavingStep(TRUE) => StoreEqualsState']_vars
  /\ [][(persisted' # persisted /\ ~Reload /\ failedWrites' = 0) => StoreEqualsState']_vars

\* A write succeeded after an earlier one failed: record and memory agree
\* on cleared fog and a marker.
C7_Witness ==
  /\ StoreEqualsState
  /\ ~containerHidden
  /\ failedWrites = 0
  /\ markers # <<>>
  /\ revealed # {}
  /\ mode = "reveal"

\* ----------------------------------------------------------------------- C8
\* C8: a confirmed onReset sets imageDataUrl to null, revealed to the empty
\* set, markers to the empty sequence and nextMarkerId to 1 in one step, and
\* the record written in that step holds these values; a declined onReset
\* changes no variable.
C8_ResetClearsAndPersists ==
  /\ [][\A ok \in BOOLEAN : onReset(TRUE, ok) =>
          /\ imageDataUrl' = ImgNull
          /\ revealed' = {}
          /\ markers' = <<>>
          /\ nextMarkerId' = FirstMarkerId
          /\ ok => store' = StoreObj(ImgNull, NumOf(Num(cols)), NumOf(Num(rows)),
                                     RevObj({}), MrkArr(<<>>), NumOf(Num(FirstMarkerId)))]_vars
  /\ [](~ENABLED (onReset(FALSE, TRUE) /\ vars' # vars))

\* The map of a decoded image was hidden again: only a confirmed onReset
\* does that.
C8_Witness ==
  /\ imageDataUrl = ImgNull
  /\ imgComplete
  /\ containerHidden
  /\ nextMarkerId = FirstMarkerId
  /\ StoreEqualsState

\* ----------------------------------------------------------------------- C9
\* C9: every reader.onload sets state.imageDataUrl to the image read and
\* state.revealed to the empty set, with the map image not yet decoded, and
\* leaves markers, nextMarkerId, cols and rows as they were.
C9_NewImageClearsFog ==
  [][\A k \in 1..MaxPendingReads, ok \in BOOLEAN : readerOnload(k, ok) =>
       /\ imageDataUrl' = ImgStr(pendingReads[k])
       /\ revealed' = {}
       /\ imgLoading' /\ ~imgComplete'
       /\ UNCHANGED <<markers, nextMarkerId, cols, rows>>]_vars

\* A second image was read over a decoded one that had a marker: the fog is
\* empty and the marker is still there.
C9_Witness ==
  /\ imgLoading
  /\ hadPrior
  /\ revealed = {}
  /\ markers # <<>>
  /\ ~containerHidden

\* ---------------------------------------------------------------------- C10
\* C10, as stated: while the load of a newly set image source is pending,
\* neither the grid, nor the fog, nor the markers have been rendered.
C10_NothingRenderedBeforeOnload == imgLoading => early = {}

\* C10, amended: while the load of a newly set image source is pending,
\* renderFog builds no cell unless the element still reported an earlier,
\* decoded image when the source was set; renderGrid and renderMarkers have
\* run by then, called by renderAll right after showMap, in reader.onload
\* and in init with a stored image.
C10_OnlyFogWaitsForOnload ==
  imgLoading => /\ {"grid", "markers"} \subseteq early
                /\ "fog" \in early => hadPrior

\* The first image of a session is loading: grid and markers are rendered,
\* the fog is not.
C10_Witness ==
  /\ imgLoading
  /\ ~hadPrior
  /\ early = {"grid", "markers"}
  /\ imageDataUrl = ImgStr("imgB")

\* ---------------------------------------------------------------------- C11
\* C11: a handler whose write fails keeps its mutation in memory (a reveal
\* click its keys, a marker save its marker) and leaves the durable record as
\* it was; handlers keep running on the state in memory, and the next write
\* that succeeds makes the record equal to the persisted fields in memory,
\* changes made while writes failed included.
C11_FailedWriteIsNotFatal ==
  /\ [][\A cell \in ClickCells, radius \in RevealSizes :
          onMapClickReveal(cell, radius, FALSE)
            => /\ revealed' = RevealCells(cell[1], cell[2], radius, cols, rows, revealed)
               /\ store' = store]_vars
  /\ [][\A txt \in MarkerTexts :
          (onMarkerSave(txt, FALSE) /\ pendingMarker.set)
            => /\ Len(markers') = Len(markers) + 1
               /\ store' = store]_vars
  /\ [][failedWrites' > failedWrites => store' = store]_vars
  /\ [][(failedWrites > 0 /\ failedWrites' = 0) => StoreEqualsState']_vars
  /\ []((failedWrites > 0 /\ PageUsable)
         => ENABLED (\E txt \in ColTexts : onGridChange("cols", txt, TRUE)))

\* The write of a reveal click failed: the keys are in memory, the record
\* still holds the empty fog, and the map stays usable.
C11_Witness ==
  /\ failedWrites > 0
  /\ revealed # {}
  /\ store.revealed = RevObj({})
  /\ ~containerHidden
  /\ modal = "closed"

\* ---------------------------------------------------------------------- C12
\* The fields and the read queue a usage error must leave alone.
C12_Kept == <<markers, nextMarkerId, imageDataUrl, revealed, store, pendingReads>>

\* C12: onMarkerSave without a pending position, and onImageSelect with no
\* file or a file that is no image, change neither markers, nextMarkerId,
\* imageDataUrl, revealed nor the durable record, and start no read.
C12_UsageErrorsAreNoOps ==
  /\ [](~ENABLED (/\ ~pendingMarker.set
                  /\ \E txt \in MarkerTexts, ok \in BOOLEAN : onMarkerSave(txt, ok)
                  /\ C12_Kept' # C12_Kept))
  /\ [](~ENABLED (/\ \E file \in Files : file.kind # "image" /\ onImageSelect(file)
                  /\ C12_Kept' # C12_Kept))

\* The modal was cancelled and is fading out: its Save button can still be
\* clicked, with no pending position.
C12_Witness ==
  /\ modal = "hiding"
  /\ ~pendingMarker.set
  /\ markers = <<>>
  /\ nextMarkerId = FirstMarkerId
  /\ ~containerHidden

\* ---------------------------------------------------------------------- C13
\* Steps of the marker modal.
C13_MarkerSaved == \E txt \in MarkerTexts, ok \in BOOLEAN : onMarkerSave(txt, ok) /\ pendingMarker.set
C13_MarkerClick == \E cell \in ClickCells, pos \in ClickPositions : onMapClickMarker(cell, pos)

\* C13: within a page session pendingMarker is set only by a marker-mode
\* click and is null after a save, a cancel or the modal's hidden event;
\* cancel, dismissal and the hidden event change no persisted field and no
\* durable record; markers grows only through onMarkerSave, by the marker at
\* the pending position; a step that sets or clears pendingMarker without
\* saving a marker leaves the record alone.
C13_PendingMarkerLifecycle ==
  /\ [][(pendingMarker' # pendingMarker /\ pendingMarker'.set) => C13_MarkerClick]_vars
  /\ [][(C13_MarkerSaved \/ closeMarkerModal \/ modalHidden) => ~pendingMarker'.set]_vars
  /\ [][(closeMarkerModal \/ modalDismiss \/ modalHidden) => UNCHANGED <<persisted, store>>]_vars
  /\ [][(Len(markers') > Len(markers) /\ ~Reload)
          => /\ C13_MarkerSaved
             /\ markers'[Len(markers')].x = pendingMarker.x
             /\ markers'[Len(markers')].y = pendingMarker.y]_vars
  /\ [][C13_MarkerClick => markers' = markers]_vars
  /\ [][(pendingMarker' # pendingMarker /\ ~C13_MarkerSaved) => store' = store]_vars

\* The modal was dismissed with Escape and is fading out: the position is
\* still pending and nothing was saved.
C13_Witness ==
  /\ modal = "hiding"
  /\ pendingMarker.set
  /\ markers = <<>>
  /\ store.markers = MrkArr(<<>>)

\* ---------------------------------------------------------------------- C14
\* Marker sequences of up to three markers with ids from 1..3.
C14_Marker(id) == NewMarker(id, Pending([x |-> 50, y |-> 50]), [name |-> " Trap ", check |-> "  "])
C14_MarkerLists ==
  {<<>>} \cup {<<C14_Marker(a)>> : a \in 1..3}
         \cup {<<C14_Marker(a), C14_Marker(b)>> : a \in 1..3, b \in 1..3}
         \cup {<<C14_Marker(a), C14_Marker(b), C14_Marker(c)>> : a \in 1..3, b \in 1..3, c \in 1..3}

\* ms without the markers whose id is id, the others in their order.
RECURSIVE C14_Without(_, _)
C14_Without(ms, id) ==
  IF ms = <<>> THEN <<>>
  ELSE IF Head(ms).id = id THEN C14_Without(Tail(ms), id)
       ELSE <<Head(ms)>> \o C14_Without(Tail(ms), id)

\* C14: deleteMarker(id) removes exactly the markers whose id is id, keeps
\* the others in their order and leaves nextMarkerId alone; with no such
\* marker the sequence is unchanged, and deleting twice equals deleting once.
C14_DeleteRemovesExactlyId ==
  /\ \A ms \in C14_MarkerLists, id \in 1..3 :
       /\ FilterMarkers(ms, id) = C14_Without(ms, id)
       /\ (\A k \in 1..Len(ms) : ms[k].id # id) => FilterMarkers(ms, id) = ms
       /\ FilterMarkers(FilterMarkers(ms, id), id) = FilterMarkers(ms, id)
  /\ [][\A id \in 1..MaxMarkerId, ok \in BOOLEAN :
          deleteMarker(id, ok)
            => /\ markers' = C14_Without(markers, id)
               /\ nextMarkerId' = nextMarkerId
               /\ FilterMarkers(markers', id) = markers']_vars

\* A marker was saved and deleted on the visible map: the list is empty and
\* the counter is past its id.
C14_Witness ==
  /\ markers = <<>>
  /\ nextMarkerId > FirstMarkerId
  /\ ~containerHidden
  /\ modal = "closed"
  /\ store.markers = MrkArr(<<>>)

\* ---------------------------------------------------------------------- C15
\* C15: an integer v typed into the cols input sets state.cols to
\* max(4, min(24, v)), and an integer typed into the rows input does the
\* same for state.rows; the default is used only for text that is no number.
C15_ClampsEveryInteger ==
  [][\A which \in {"cols", "rows"}, ok \in BOOLEAN : \A txt \in GridTexts(which) :
       (txt.t = "int" /\ onGridChange(which, txt, ok))
         => IF which = "cols" THEN cols' = Max(MinGrid, Min(MaxGrid, txt.n))
            ELSE rows' = Max(MinGrid, Min(MaxGrid, txt.n))]_vars

\* ---------------------------------------------------------------------- C16
\* Handlers that touch only transient state.
C16_TransientStep ==
  \/ onMasterShowAll
  \/ onMasterHide
  \/ setMode
  \/ \E cell \in ClickCells, pos \in ClickPositions : onMapClickMarker(cell, pos)
  \/ closeMarkerModal
  \/ modalDismiss
  \/ modalHidden

\* C16: a written record holds exactly imageDataUrl, cols, rows, revealed,
\* markers and nextMarkerId; the view-all override, the mode switch and
\* setting or clearing pendingMarker change neither state.revealed nor the
\* record; after a reload masterViewAll is false and pendingMarker is null.
C16_TransientNeverPersisted ==
  /\ [](store.kind = "object" =>
          DOMAIN store = {"kind", "imageDataUrl", "cols", "rows", "revealed", "markers",
                          "nextMarkerId"})
  /\ [][<<revealed, store>>' # <<revealed, store>> => ~C16_TransientStep]_vars
  /\ [][Reload => ~masterViewAll' /\ ~pendingMarker'.set]_vars

\* The override is on and a position is pending while the record holds the
\* persisted fields of the state in memory.
C16_Witness ==
  /\ masterViewAll
  /\ pendingMarker.set
  /\ revealed # {}
  /\ StoreEqualsState

\* ---------------------------------------------------------------------- C17
\* A step of onGridChange.
C17_GridChanged ==
  \E which \in {"cols", "rows"}, ok \in BOOLEAN : \E txt \in GridTexts(which) :
    onGridChange(which, txt, ok)

\* C17: onGridChange leaves revealed, markers, nextMarkerId and imageDataUrl
\* as they were, keys outside the new grid included, so isCellVisible is the
\* same before and after for every cell inside both grids.
C17_GridChangeKeepsTheRest ==
  /\ [][<<revealed, markers, nextMarkerId, imageDataUrl>>'
           # <<revealed, markers, nextMarkerId, imageDataUrl>> => ~C17_GridChanged]_vars
  /\ [][((cols' # cols \/ rows' # rows) /\ C17_GridChanged)
          => \A i \in 0..(Min(cols, cols') - 1), j \in 0..(Min(rows, rows') - 1) :
               isCellVisible(cellKey(i, j))' = isCellVisible(cellKey(i, j))]_vars

\* The grid was narrowed to 4 columns after column 4 was revealed: the key
\* is still in revealed.
C17_Witness ==
  /\ cols = MinGrid
  /\ cellKey(4, 0) \in revealed
  /\ ~masterViewAll

\* ---------------------------------------------------------------------- C18
\* The reveal click (cell, radius) has just been made: the fog in memory is
\* what that click makes of the recorded fog (the recorded fog itself when
\* the click's write succeeded), and the rest of the record is current.
C18_JustClicked(cell, radius) ==
  /\ store.kind = "object"
  /\ store.revealed.t = "obj"
  /\ store.imageDataUrl = imageDataUrl
  /\ store.cols = NumOf(Num(cols))
  /\ store.rows = NumOf(Num(rows))
  /\ store.markers = MrkArr(markers)
  /\ store.nextMarkerId = NumOf(Num(nextMarkerId))
  /\ store.revealed.keys \subseteq revealed
  /\ revealed = RevealCells(cell[1], cell[2], radius, cols, rows, store.revealed.keys)

C19_StaleReadIsIgnored ==
  [][\A ok \in BOOLEAN :
       (Len(pendingReads) = 2 /\ readerOnload(1, ok))
         => UNCHANGED <<imageDataUrl, revealed, store>>]_vars

\* ---------------------------------------------------------------------- C20
\* A step of the reveal branch of onMapClick.
C20_RevealClick ==
  \E cell \in ClickCells, radius \in RevealSizes, ok \in BOOLEAN :
    onMapClickReveal(cell, radius, ok)

\* C20: a reveal-mode click changes no state field but revealed, a
\* marker-mode click none but pendingMarker and writes no record; state.mode
\* is 'reveal' or 'marker' and changes within a page session only through
\* the mode toggle.
C20_ModesDoNotOverlap ==
  /\ [](mode \in {"reveal", "marker"})
  /\ [][<<imageDataUrl, cols, rows, markers, nextMarkerId, mode, pendingMarker, masterViewAll>>'
           # <<imageDataUrl, cols, rows, markers, nextMarkerId, mode, pendingMarker, masterViewAll>>
          => ~C20_RevealClick]_vars
  /\ [][<<persisted, store, mode, masterViewAll>>' # <<persisted, store, mode, masterViewAll>>
          => ~C13_MarkerClick]_vars
  /\ [][C13_MarkerClick => pendingMarker'.set]_vars
  /\ [][mode' # mode => (setMode \/ Reload)]_vars

\* A position is pending in marker mode over fog that reveal-mode clicks
\* opened earlier.
C20_Witness ==
  /\ mode = "marker"
  /\ pendingMarker.set
  /\ modal = "open"
  /\ revealed # {}
  /\ markers = <<>>

====
